---- MODULE Spec2Model ----
(***************************************************************************)
(* Model of the viewer's time-series store (viewer/src/values.rs): the     *)
(* bounded queue QueueMaxLen, the NITS channel-number mapping, the store   *)
(* Values with its ingestion (add_data), retention change (set_max_len)    *)
(* and snapshot (Serialize / Deserialize), and the bounds validator        *)
(* (viewer/src/range_check.rs).                                            *)
(*                                                                         *)
(* A float sample is represented by its raw 32-bit pattern (f32::to_bits), *)
(* which is the only view of it the store ever takes.                      *)
(***************************************************************************)
EXTENDS Integers, Sequences, FiniteSets, TLC

VARIABLES
    values,              \* Values::values: channel name -> QueueMaxLen<f32>
    nits_timeline,       \* Values::nits_timeline: QueueMaxLen<NitsTick>
    nits_senders,        \* Values::nits_senders
    nits_command_types,  \* Values::nits_command_types
    settings,            \* the shared Settings (retention_period, keep_values)
    panicked,            \* TRUE once a call has aborted the program (panic)
    snapshot,            \* the last serialized store, NoSnapshot when none
    pre_index,           \* both index sets as they were before the last operation
    last_op,             \* name of the last operation performed
    last_batch,          \* the batch of the last add_data call
    nops,                \* number of operations performed
    q,                   \* a stand-alone QueueMaxLen under test
    q_pushed,            \* every element handed to q.push / q.extend, in order
    q_panicked,          \* TRUE once an operation on q has panicked
    q_op,                \* name and argument of the last operation on q
    q_before,            \* q as it was before the last operation on it
    cn_in,               \* arguments of get_channel_number: [c, f, b], and the build
    cn_out,              \* its outcome and the revision called, NotCalled before
    dec_in,              \* one commonline sample and the car channels of its batch
    dec_out,             \* the commands decoded from dec_in, NotDecoded before
    csv_file,            \* the CSV file: its lines, each a sequence of text pieces
    csv_out,             \* the last save_csv / load_csv call and its outcome
    csv_saved,           \* the series and the file of the last successful save_csv
    rc_in,               \* a RangeCheck<i32> and the name given to check_result
    rc_out,              \* what check and check_result returned, NotChecked before
    w_in,                \* the raw bits of one sample, and the fields they are made of
    w_out                \* the fields add_data reads from w_in, NotUnpacked before

vars == <<values, nits_timeline, nits_senders, nits_command_types, settings,
          panicked, snapshot, pre_index, last_op, last_batch, nops,
          q, q_pushed, q_panicked, q_op, q_before, cn_in, cn_out, dec_in, dec_out,
          csv_file, csv_out, csv_saved, rc_in, rc_out, w_in, w_out>>

storeVars == <<values, nits_timeline, nits_senders, nits_command_types, settings,
               panicked, snapshot, pre_index, last_op, last_batch, nops>>

queueVars == <<q, q_pushed, q_panicked, q_op, q_before>>

chanVars == <<cn_in, cn_out>>

decVars == <<dec_in, dec_out>>

csvVars == <<csv_file, csv_out, csv_saved>>

rangeVars == <<rc_in, rc_out>>

bitsVars == <<w_in, w_out>>

-----------------------------------------------------------------------------
(* Bounds of the model *)

\* largest retention_period the settings take
MaxRetention == 2

\* longest sample list of one channel in a batch
MaxBatchLen == 1

\* number of operations on the store in one run
MaxOps == 3

\* largest capacity of the stand-alone queue
MaxQueueCap == 3

\* longest list handed to one extend of the stand-alone queue
MaxExtendLen == 5

\* number of elements handed to the stand-alone queue in one run
MaxPushed == 8

\* car counts and relative positions tried around the valid range
MaxCount == 16

\* most commonline samples in the batch a tick is decoded from
MaxDecodeLen == 2

\* largest limit of a bound handed to the bounds validator
MaxLimit == 1

\* most commonline samples in a batch with a tick of 15 cars in front
MaxLocalLen == 2

-----------------------------------------------------------------------------
(* Integer widths *)

\* i32::MAX; the largest integer the checker represents as well.  A u32 word
\* at or above 2^31 is written as the i32 of the same bits, w - 2^32: \div
\* rounds down and % is never negative, so shifts and masks read the same bits.
I32Max == 2147483647

\* 2^24: a command word is command_type * 2^24 + payload
Pow24 == 16777216

Min(a, b) == IF a < b THEN a ELSE b

Abs(a) == IF a < 0 THEN -a ELSE a

-----------------------------------------------------------------------------
(* range_check.rs: RangeCheck<T>.  A bound is <<limit, inclusive>>, an     *)
(* absent bound is <<>>.                                                   *)

NoBound == <<>>

RangeCheckNew(value, min, max) == [value |-> value, min |-> min, max |-> max]

LowerBound(value, min) == [value |-> value, min |-> min, max |-> NoBound]

UpperBound(value, max) == [value |-> value, min |-> NoBound, max |-> max]

UpperAndLowerBound(value, min, max) == [value |-> value, min |-> min, max |-> max]

\* check that takes every bound as inclusive
CheckInclusive(rc) ==
    LET minOk == IF rc.min = NoBound THEN TRUE ELSE ~(rc.value < rc.min[1])
        maxOk == IF rc.max = NoBound THEN TRUE ELSE ~(rc.value > rc.max[1])
    IN  IF ~minOk THEN FALSE ELSE maxOk

Check(rc) ==
    LET minOk == IF rc.min = NoBound THEN TRUE
                 ELSE IF rc.min[2] THEN ~(rc.value < rc.min[1])
                      ELSE ~(rc.value <= rc.min[1])
        maxOk == IF rc.max = NoBound THEN TRUE
                 ELSE IF rc.max[2] THEN ~(rc.value > rc.max[1])
                      ELSE ~(rc.value >= rc.max[1])
    IN  IF ~minOk THEN FALSE ELSE maxOk

CheckResult(rc, name) ==
    IF Check(rc)
    THEN [kind |-> "Ok"]
    ELSE [kind |-> "Err", name |-> name, value |-> rc.value,
          min |-> rc.min, max |-> rc.max]

-----------------------------------------------------------------------------
(* values.rs: NitsRelativeCarCount::get_channel_number                     *)

\* u32 subtraction a - b: exact when it fits, otherwise a panic in a build
\* with overflow checks and the value modulo 2^32 in a build without.  The
\* wrapped value a - b + 2^32 is written [val |-> a - b, wrapped |-> TRUE]:
\* it lies above i32::MAX.
SubU32(a, b, checks) ==
    IF a >= b THEN [kind |-> "Ok", val |-> a - b, wrapped |-> FALSE]
    ELSE IF checks THEN [kind |-> "Panic"]
         ELSE [kind |-> "Ok", val |-> a - b, wrapped |-> TRUE]

\* `x as i32` of a u32
AsI32(x) == IF x <= I32Max THEN x ELSE x - 2 * (I32Max + 1)

\* get_channel_number that counts the cars in front from channel 0
GetChannelNumberFromZero(c, car_count_front, car_count_back, checks) ==
    LET r1 == CheckResult(RangeCheckNew(c, <<-15, TRUE>>, <<15, TRUE>>),
                          "NitsRelativeCarCount")
        r2 == CheckResult(RangeCheckNew(AsI32(car_count_front), <<0, TRUE>>, <<15, FALSE>>),
                          "car_count_front")
    IN  IF r1.kind = "Err" THEN r1
        ELSE IF r2.kind = "Err" THEN r2
        ELSE IF c < 0 THEN SubU32(car_count_front, Abs(c), checks)
        ELSE IF c > 0 THEN SubU32(31 + Abs(c), car_count_back, checks)
        ELSE [kind |-> "Ok", val |-> 16, wrapped |-> FALSE]

GetChannelNumber(c, car_count_front, car_count_back, checks) ==
    LET r1 == CheckResult(RangeCheckNew(c, <<-15, TRUE>>, <<15, TRUE>>),
                          "NitsRelativeCarCount")
        r2 == CheckResult(RangeCheckNew(AsI32(car_count_front), <<0, TRUE>>, <<15, FALSE>>),
                          "car_count_front")
        r3 == CheckResult(RangeCheckNew(AsI32(car_count_front), <<0, TRUE>>, <<15, FALSE>>),
                          "car_count_back")
    IN  IF r1.kind = "Err" THEN r1
        ELSE IF r2.kind = "Err" THEN r2
        ELSE IF r3.kind = "Err" THEN r3
        ELSE IF c < 0 THEN SubU32(1 + car_count_front, Abs(c), checks)
        ELSE IF c > 0 THEN SubU32(31 + Abs(c), car_count_back, checks)
        ELSE [kind |-> "Ok", val |-> 16, wrapped |-> FALSE]

\* nits.rs: the other revision of get_channel_number; range_check(&(lo..=hi), v)
\* fails unless lo <= v <= hi
GetChannelNumberNits(c, car_count_front, car_count_back, checks) ==
    LET r1 == CheckResult(RangeCheckNew(c, <<-15, TRUE>>, <<15, TRUE>>), "range")
        r2 == CheckResult(RangeCheckNew(AsI32(car_count_front), <<0, TRUE>>, <<15, TRUE>>),
                          "range")
        r3 == CheckResult(RangeCheckNew(AsI32(car_count_back), <<0, TRUE>>, <<15, TRUE>>),
                          "range")
    IN  IF r1.kind = "Err" THEN r1
        ELSE IF r2.kind = "Err" THEN r2
        ELSE IF r3.kind = "Err" THEN r3
        ELSE IF c < 0 THEN SubU32(1 + car_count_front, Abs(c), checks)
        ELSE IF c > 0 THEN SubU32(31 + Abs(c), car_count_back, checks)
        ELSE [kind |-> "Ok", val |-> 16, wrapped |-> FALSE]

-----------------------------------------------------------------------------
(* values.rs: NitsCommand *)

GetCommandType(w) == (w \div Pow24) % 256

GetPayload(w) == w % Pow24

CarCountFront(w) == GetPayload(w) % 16

\* car_count_back read one bit too low
CarCountBackShift4(w) == (GetPayload(w) \div 16) % 16

CarCountBack(w) == (GetPayload(w) \div 32) % 16

-----------------------------------------------------------------------------
(* values.rs: QueueMaxLen<T>.  An operation yields [panic, q]: the queue   *)
(* as the operation leaves it and whether it panicked on the way.          *)

WithCapacity(max_len) == [vec |-> <<>>, max_len |-> max_len]

QueueNew == WithCapacity(0)

\* VecDeque::drain(0..n): panics when n exceeds the length, before removing
\* anything
Drain(vec, n) ==
    IF n > Len(vec) THEN [panic |-> TRUE, vec |-> vec]
    ELSE [panic |-> FALSE, vec |-> SubSeq(vec, n + 1, Len(vec))]

\* set_max_len that drops the excess from the back
QSetMaxLenBack(queue, max_len) ==
    [panic |-> FALSE,
     q |-> [vec |-> SubSeq(queue.vec, 1, Min(Len(queue.vec), max_len)),
            max_len |-> max_len]]

QSetMaxLen(queue, max_len) ==
    LET len == Len(queue.vec)
        d   == IF len > max_len THEN Drain(queue.vec, len - max_len)
               ELSE [panic |-> FALSE, vec |-> queue.vec]
    IN  IF d.panic THEN [panic |-> TRUE, q |-> queue]
        ELSE [panic |-> FALSE, q |-> [vec |-> d.vec, max_len |-> max_len]]

\* extend that appends without evicting
QExtendNoEvict(queue, vals) ==
    [panic |-> FALSE, q |-> [queue EXCEPT !.vec = queue.vec \o vals]]

QExtend(queue, vals) ==
    LET new_len == Len(queue.vec) + Len(vals)
        d       == IF new_len > queue.max_len
                   THEN Drain(queue.vec, new_len - queue.max_len)
                   ELSE [panic |-> FALSE, vec |-> queue.vec]
    IN  IF d.panic THEN [panic |-> TRUE, q |-> queue]
        ELSE [panic |-> FALSE, q |-> [queue EXCEPT !.vec = d.vec \o vals]]

QPush(queue, value) ==
    LET new_len == Len(queue.vec) + 1
        d       == IF new_len > queue.max_len
                   THEN Drain(queue.vec, new_len - queue.max_len)
                   ELSE [panic |-> FALSE, vec |-> queue.vec]
    IN  IF d.panic THEN [panic |-> TRUE, q |-> queue]
        ELSE [panic |-> FALSE, q |-> [queue EXCEPT !.vec = Append(d.vec, value)]]

-----------------------------------------------------------------------------
(* Inputs of the store: channel names and sample words *)

Digit == <<"0", "1", "2", "3", "4", "5", "6", "7", "8", "9">>

\* format!("NITS N{:02}", i), for the channel numbers 0..32
ChannelNames == [i \in 0..32 |-> "NITS N" \o Digit[(i \div 10) + 1] \o Digit[(i % 10) + 1]]

ChannelName(i) == ChannelNames[i]

CommonlineName == "NITS N32"

\* a command word: command type ct, car_count_back b, bit 4 clear, car_count_front f
Word(ct, b, f) == ct * Pow24 + b * 32 + f

\* commonline words: type 0 with no cars around, type 1 with one car in front
CommonWords == {Word(0, 0, 0), Word(1, 0, 1)}

\* per-car command words
CarWords == {Word(2, 0, 0)}

\* samples of an ordinary channel
PlainWords == {Word(0, 0, 0)}

Keys == {ChannelName(1), CommonlineName, "A"}

WordsOf(k) ==
    IF k = CommonlineName THEN CommonWords
    ELSE IF k = "A" THEN PlainWords
    ELSE CarWords

SeqsUpTo(S, n) == UNION {[1..m -> S] : m \in 0..n}

\* the batches handed to add_data: any subset of the channel names, each with a
\* sample list of at most MaxBatchLen samples
BatchesOver(D) ==
    {b \in [D -> UNION {SeqsUpTo(WordsOf(k), MaxBatchLen) : k \in D}] :
       \A k \in D : b[k] \in SeqsUpTo(WordsOf(k), MaxBatchLen)}

Batches == {b : b \in UNION {BatchesOver(D) : D \in SUBSET Keys}}

Retentions == 0..MaxRetention

\* every order in which a HashMap may yield the keys in D
Orders(D) ==
    {s \in [1..Cardinality(D) -> D] : \A i, j \in 1..Cardinality(D) : s[i] = s[j] => i = j}

-----------------------------------------------------------------------------
(* values.rs: Values *)

\* Settings::max_len
SettingsMaxLen(s) == s.retention_period

\* add_data, first loop: the car channels of the batch by channel number
NitsData(batch) ==
    [i \in {n \in 0..31 : ChannelName(n) \in DOMAIN batch} |-> batch[ChannelName(i)]]

\* an index that is always the first
SaturatingSubZero(a, b) == 0

SaturatingSub(a, b) == IF a > b THEN a - b ELSE 0

\* BTreeMap::insert
MapInsert(m, key, value) ==
    [k \in DOMAIN m \cup {key} |-> IF k = key THEN value ELSE m[k]]

EmptyCommands == [j \in {} |-> 0]

\* add_data, the loop over j from j on, for the i-th (0-based) of len
\* commonline samples with car counts f and b; acc = [panic, commands]: the
\* commands found, and whether the channel-number computation panicked
RECURSIVE DecodeFrom(_, _, _, _, _, _, _, _)
DecodeFrom(acc, j, f, b, nits_data, i, len, checks) ==
    IF j > b THEN acc
    ELSE LET r == GetChannelNumber(j, f, b, checks)
         IN  IF r.kind = "Panic" THEN [acc EXCEPT !.panic = TRUE]
             ELSE IF r.kind = "Ok" /\ ~r.wrapped /\ r.val \in DOMAIN nits_data
             THEN LET channel == nits_data[r.val]
                      idx == SaturatingSub(i + Len(channel), len)
                  IN  IF idx < Len(channel)
                      THEN DecodeFrom([acc EXCEPT !.commands =
                                          MapInsert(acc.commands, j, channel[idx + 1])],
                                      j + 1, f, b, nits_data, i, len, checks)
                      ELSE DecodeFrom(acc, j + 1, f, b, nits_data, i, len, checks)
             ELSE DecodeFrom(acc, j + 1, f, b, nits_data, i, len, checks)

\* add_data, the body of the loop over the commonline samples up to the push:
\* the commands of the tick for the commonline word w
DecodeCommands(w, nits_data, i, len, checks) ==
    DecodeFrom([panic |-> FALSE, commands |-> EmptyCommands],
               -CarCountFront(w), CarCountFront(w), CarCountBack(w),
               nits_data, i, len, checks)

CommandTypesOf(commands) == {GetCommandType(commands[j]) : j \in DOMAIN commands}

\* add_data, the loop over the commonline samples from the i-th on;
\* st = [tl, senders, types, panic]
RECURSIVE IngestTicks(_, _, _, _, _)
IngestTicks(st, n32, nits_data, i, checks) ==
    IF st.panic \/ i >= Len(n32) THEN st
    ELSE LET w == n32[i + 1]
             dec == DecodeCommands(w, nits_data, i, Len(n32), checks)
             senders1 == st.senders \cup DOMAIN dec.commands
             types1 == st.types \cup {GetCommandType(w)} \cup CommandTypesOf(dec.commands)
             p == QPush(st.tl, [commonline |-> w, commands |-> dec.commands])
         IN  IF dec.panic
             THEN [st EXCEPT !.senders = senders1, !.types = types1, !.panic = TRUE]
             ELSE IngestTicks([tl |-> p.q, senders |-> senders1, types |-> types1,
                               panic |-> p.panic], n32, nits_data, i + 1, checks)

\* push that empties every other series
ValuesPushClear(vals, key, samples, max_len) ==
    LET base == [k \in DOMAIN vals \cup {key} |->
                    IF k = key /\ k \in DOMAIN vals THEN vals[k] ELSE WithCapacity(max_len)]
        e == QExtend(base[key], samples)
    IN  [panic |-> e.panic, values |-> [base EXCEPT ![key] = e.q]]

\* Values::push
ValuesPush(vals, key, samples, max_len) ==
    LET base == [k \in DOMAIN vals \cup {key} |->
                    IF k \in DOMAIN vals THEN vals[k] ELSE WithCapacity(max_len)]
        e == QExtend(base[key], samples)
    IN  [panic |-> e.panic, values |-> [base EXCEPT ![key] = e.q]]

\* add_data, the last loop, over the batch's entries in the order `order`,
\* from the n-th on; st = [values, panic]
RECURSIVE PushAll(_, _, _, _, _)
PushAll(st, batch, order, n, max_len) ==
    IF st.panic \/ n > Len(order) THEN st
    ELSE PushAll(ValuesPush(st.values, order[n], batch[order[n]], max_len),
                 batch, order, n + 1, max_len)

\* Values::update_nits
SendersOf(tl) == UNION {DOMAIN tl.vec[n].commands : n \in 1..Len(tl.vec)}

TypesOf(tl) ==
    UNION {{GetCommandType(tl.vec[n].commonline)} \cup CommandTypesOf(tl.vec[n].commands) :
           n \in 1..Len(tl.vec)}

\* add_data that rebuilds both index sets from the timeline after its ticks
IngestPhaseRebuild(batch, checks) ==
    LET t == IF CommonlineName \in DOMAIN batch
             THEN IngestTicks([tl |-> nits_timeline, senders |-> nits_senders,
                               types |-> nits_command_types, panic |-> FALSE],
                              batch[CommonlineName], NitsData(batch), 0, checks)
             ELSE [tl |-> nits_timeline, senders |-> nits_senders,
                   types |-> nits_command_types, panic |-> FALSE]
    IN  [t EXCEPT !.senders = SendersOf(t.tl), !.types = TypesOf(t.tl)]

\* add_data that reads an absent commonline channel as one sample of zero
IngestPhaseDefaultTick(batch, checks) ==
    IngestTicks([tl |-> nits_timeline, senders |-> nits_senders,
                 types |-> nits_command_types, panic |-> FALSE],
                IF CommonlineName \in DOMAIN batch THEN batch[CommonlineName] ELSE <<0>>,
                NitsData(batch), 0, checks)

\* add_data up to its last loop: the timeline and the index sets it leaves
IngestPhase(batch, checks) ==
    IF CommonlineName \in DOMAIN batch
    THEN IngestTicks([tl |-> nits_timeline, senders |-> nits_senders,
                      types |-> nits_command_types, panic |-> FALSE],
                     batch[CommonlineName], NitsData(batch), 0, checks)
    ELSE [tl |-> nits_timeline, senders |-> nits_senders,
          types |-> nits_command_types, panic |-> FALSE]

\* add_data from its last loop on, after the first part left t
PushPhase(t, batch, order) ==
    LET p == IF t.panic THEN [values |-> values, panic |-> TRUE]
             ELSE PushAll([values |-> values, panic |-> FALSE], batch, order, 1,
                          SettingsMaxLen(settings))
    IN  [values |-> p.values, tl |-> t.tl, senders |-> t.senders, types |-> t.types,
         panic |-> p.panic]

\* Values::add_data as one step: every outcome it may have for a batch, over
\* the orders in which the HashMap yields the batch's entries and over the
\* builds with and without overflow checks
AddDataResults(batch) ==
    {PushPhase(t, batch, order) :
        t \in {IngestPhase(batch, checks) : checks \in BOOLEAN},
        order \in Orders(DOMAIN batch)}

\* update_nits that leaves both index sets empty
UpdateNitsEmpty(tl) == [senders |-> {}, types |-> {}]

\* update_nits that does not reset the index sets first
UpdateNitsNoReset(tl) ==
    [senders |-> nits_senders \cup SendersOf(tl),
     types |-> nits_command_types \cup TypesOf(tl)]

\* Values::update_nits: both index sets, rebuilt from the timeline tl
UpdateNits(tl) == [senders |-> SendersOf(tl), types |-> TypesOf(tl)]

\* serialize that writes the full store whatever keep_values says
SerializeValuesFull ==
    [taken |-> TRUE, values |-> values, nits_timeline |-> nits_timeline,
     nits_senders |-> nits_senders, nits_command_types |-> nits_command_types]

\* impl Serialize for Values: what is written for the store
SerializeValues ==
    IF settings.keep_values
    THEN [taken |-> TRUE, values |-> values, nits_timeline |-> nits_timeline,
          nits_senders |-> nits_senders, nits_command_types |-> nits_command_types]
    ELSE [taken |-> TRUE, values |-> [k \in DOMAIN values |-> QueueNew],
          nits_timeline |-> QueueNew, nits_senders |-> {}, nits_command_types |-> {}]

EmptyValues == [k \in {} |-> QueueNew]

EmptyBatch == [k \in {} |-> <<>>]

NoSnapshot ==
    [taken |-> FALSE, values |-> EmptyValues, nits_timeline |-> QueueNew,
     nits_senders |-> {}, nits_command_types |-> {}]

\* both index sets of the store
Index == [senders |-> nits_senders, types |-> nits_command_types]

NotCalled == [rev |-> "none"]

NotDecoded == [done |-> FALSE]

-----------------------------------------------------------------------------
(* values.rs: Values::save_csv and Values::load_csv.  A line of the file   *)
(* is the sequence of the text pieces written to it; a piece is "," or the *)
(* text of a key or of a sample.                                           *)

\* an f32 is NaN: exponent bits all set and a mantissa that is not zero
IsNaN(w) == (w \div 8388608) % 256 = 255 /\ w % 8388608 # 0

\* format_args!("{}", v) of an f32, for the samples of the model: 0.0, 1.0,
\* 1.5, 2.0 and the NaNs
FormatF32(w) ==
    IF IsNaN(w) THEN "NaN"
    ELSE CASE w = 0 -> "0"
           [] w = 1065353216 -> "1"
           [] w = 1069547520 -> "1.5"
           [] w = 1073741824 -> "2"

\* str::parse::<f32>: the bits of the float, or a failure
ParseF32(text) ==
    CASE text = "0" -> [ok |-> TRUE, bits |-> 0]
      [] text = "1" -> [ok |-> TRUE, bits |-> 1065353216]
      [] text = "1.5" -> [ok |-> TRUE, bits |-> 1069547520]
      [] text = "2" -> [ok |-> TRUE, bits |-> 1073741824]
      [] text = "NaN" -> [ok |-> TRUE, bits |-> 2143289344]
      [] OTHER -> [ok |-> FALSE, bits |-> 0]

\* save_csv, first loop: the keys of the caller that the store has, in order
PresentKeys(vals, keys) ==
    LET Exists(k) == k \in DOMAIN vals
    IN  SelectSeq(keys, Exists)

\* save_csv, first loop: the header line from the i-th present key on
RECURSIVE HeaderFrom(_, _)
HeaderFrom(present, i) ==
    IF i > Len(present) THEN <<>>
    ELSE (IF i = 1 THEN <<>> ELSE <<",">>) \o <<present[i]>> \o HeaderFrom(present, i + 1)

\* save_csv: max_len, the length of the longest series written
LongestOf(vals, present) ==
    IF present = <<>> THEN 0
    ELSE CHOOSE m \in {Len(vals[present[i]].vec) : i \in 1..Len(present)} :
             \A i \in 1..Len(present) : Len(vals[present[i]].vec) <= m

\* save_csv, inner loop: the line of row `index` (0-based) from the i-th column
\* (1-based) on
RECURSIVE RowFrom(_, _, _, _, _)
RowFrom(vals, present, max_len, index, i) ==
    IF i > Len(present) THEN <<>>
    ELSE LET vec == vals[present[i]].vec
             offset == max_len - Len(vec)
             piece == IF offset > index THEN <<",">>
                      ELSE IF index - offset < Len(vec)
                           THEN IF i = 1 THEN <<FormatF32(vec[index - offset + 1])>>
                                ELSE <<",", FormatF32(vec[index - offset + 1])>>
                           ELSE <<",">>
         IN  piece \o RowFrom(vals, present, max_len, index, i + 1)

\* save_csv: the lines written for the series vals and the caller's keys
SaveLines(vals, keys) ==
    LET present == PresentKeys(vals, keys)
        max_len == LongestOf(vals, present)
    IN  <<HeaderFrom(present, 1)>> \o
        [r \in 1..max_len |-> RowFrom(vals, present, max_len, r - 1, 1)]

\* str::split(','): the cells of a line, from the i-th piece on; cur is the
\* text of the cell being read, acc the cells read
RECURSIVE SplitFrom(_, _, _, _)
SplitFrom(line, i, cur, acc) ==
    IF i > Len(line) THEN Append(acc, cur)
    ELSE IF line[i] = "," THEN SplitFrom(line, i + 1, "", Append(acc, cur))
         ELSE SplitFrom(line, i + 1, cur \o line[i], acc)

Split(line) == SplitFrom(line, 1, "", <<>>)

\* load_csv, the loop over keys.iter().zip(row): the batch of one data line, or
\* a panic when a cell does not parse (unwrap)
RowData(keys, cells) ==
    LET n == IF Len(keys) < Len(cells) THEN Len(keys) ELSE Len(cells)
        LastAt(k) == CHOOSE j \in 1..n : keys[j] = k /\ \A m \in (j + 1)..n : keys[m] # k
    IN  [panic |-> \E j \in 1..n : ~ParseF32(cells[j]).ok,
         data |-> [k \in {keys[j] : j \in 1..n} |-> <<ParseF32(cells[LastAt(k)]).bits>>]]

\* Values::add_data on the store st = [values, tl, senders, types, panic]:
\* every outcome it may have
AddDataOn(st, batch) ==
    {LET t == IF CommonlineName \in DOMAIN batch
              THEN IngestTicks([tl |-> st.tl, senders |-> st.senders,
                                types |-> st.types, panic |-> FALSE],
                               batch[CommonlineName], NitsData(batch), 0, checks)
              ELSE [tl |-> st.tl, senders |-> st.senders, types |-> st.types,
                    panic |-> FALSE]
         p == IF t.panic THEN [values |-> st.values, panic |-> TRUE]
              ELSE PushAll([values |-> st.values, panic |-> FALSE], batch, order, 1,
                           SettingsMaxLen(settings))
     IN  [values |-> p.values, tl |-> t.tl, senders |-> t.senders, types |-> t.types,
          panic |-> p.panic] :
        checks \in BOOLEAN, order \in Orders(DOMAIN batch)}

NoFirstRow == [set |-> FALSE, keys |-> <<>>]

\* load_csv, the loop over the lines from the i-th on; sts is the set of the
\* stores the lines so far may have left.  Every line is read without error.
RECURSIVE LoadLines(_, _, _, _)
LoadLines(sts, lines, i, first_row) ==
    IF i > Len(lines) THEN sts
    ELSE LET cells == Split(lines[i])
         IN  IF ~first_row.set
             THEN LoadLines(sts, lines, i + 1, [set |-> TRUE, keys |-> cells])
             ELSE LET rd == RowData(first_row.keys, cells)
                  IN  LoadLines(UNION {IF st.panic THEN {st}
                                       ELSE IF rd.panic THEN {[st EXCEPT !.panic = TRUE]}
                                       ELSE AddDataOn(st, rd.data) : st \in sts},
                                lines, i + 1, first_row)

\* the live store as a record
LiveStore ==
    [values |-> values, tl |-> nits_timeline, senders |-> nits_senders,
     types |-> nits_command_types, panic |-> FALSE]

\* the store is as Values::new leaves it
IsFresh ==
    /\ values = EmptyValues
    /\ nits_timeline = WithCapacity(SettingsMaxLen(settings))
    /\ nits_senders = {}
    /\ nits_command_types = {}

-----------------------------------------------------------------------------
(* The store: state after Values::new and its operations *)

StoreInit ==
    /\ settings \in [retention_period : Retentions, keep_values : BOOLEAN]
    /\ values = EmptyValues
    /\ nits_timeline = WithCapacity(SettingsMaxLen(settings))
    /\ nits_senders = {}
    /\ nits_command_types = {}
    /\ panicked = FALSE
    /\ snapshot = NoSnapshot
    /\ pre_index = [senders |-> {}, types |-> {}]
    /\ last_op = "new"
    /\ last_batch = EmptyBatch
    /\ nops = 0

\* the variables of the stand-alone checks, at rest
QueueIdle ==
    /\ q = QueueNew
    /\ q_pushed = <<>>
    /\ q_panicked = FALSE
    /\ q_op = [name |-> "idle", n |-> 0]
    /\ q_before = QueueNew

ChanIdle ==
    /\ cn_in = [c |-> 0, f |-> 0, b |-> 0, checks |-> FALSE]
    /\ cn_out = NotCalled

DecIdle ==
    /\ dec_in = [f |-> 0, b |-> 0, w |-> 0, nits_data |-> <<>>, i |-> 0, len |-> 1,
                 checks |-> FALSE]
    /\ dec_out = NotDecoded

\* no file on disk
NoFile == [exists |-> FALSE, lines |-> <<>>]

\* no save_csv / load_csv call made yet
NoCsvCall ==
    [op |-> "none", result |-> "none", io |-> "none", keys |-> <<>>, fresh |-> FALSE,
     before |-> EmptyValues]

NoneSaved == [taken |-> FALSE, values |-> EmptyValues, keys |-> <<>>, lines |-> <<>>]

CsvIdle ==
    /\ csv_file = NoFile
    /\ csv_out = NoCsvCall
    /\ csv_saved = NoneSaved

NotChecked == [done |-> FALSE]

RangeIdle ==
    /\ rc_in = [rc |-> LowerBound(0, <<0, TRUE>>), name |-> ""]
    /\ rc_out = NotChecked

NotUnpacked == [done |-> FALSE]

BitsIdle ==
    /\ w_in = [w |-> 0, ct |-> 0, hi |-> 0, b |-> 0, bit4 |-> 0, f |-> 0]
    /\ w_out = NotUnpacked

StoreIdle ==
    /\ settings = [retention_period |-> 0, keep_values |-> FALSE]
    /\ values = EmptyValues
    /\ nits_timeline = QueueNew
    /\ nits_senders = {}
    /\ nits_command_types = {}
    /\ panicked = FALSE
    /\ snapshot = NoSnapshot
    /\ pre_index = [senders |-> {}, types |-> {}]
    /\ last_op = "idle"
    /\ last_batch = EmptyBatch
    /\ nops = 0

\* Values::add_data(batch)
AddData(batch) ==
    /\ ~panicked
    /\ nops < MaxOps
    /\ \E r \in AddDataResults(batch) :
           /\ values' = r.values
           /\ nits_timeline' = r.tl
           /\ nits_senders' = r.senders
           /\ nits_command_types' = r.types
           /\ panicked' = r.panic
    /\ last_op' = "add_data"
    /\ last_batch' = batch
    /\ pre_index' = Index
    /\ nops' = nops + 1
    /\ UNCHANGED <<settings, snapshot, queueVars, chanVars, decVars, csvVars, rangeVars, bitsVars>>

\* what Values::set_max_len leaves behind when the settings say max_len
SetMaxLenResult(max_len) ==
    LET tl == QSetMaxLen(nits_timeline, max_len).q
        ix == UpdateNits(tl)
    IN  [values |-> [k \in DOMAIN values |-> QSetMaxLen(values[k], max_len).q],
         tl |-> tl, senders |-> ix.senders, types |-> ix.types]

\* Values::set_max_len()
SetMaxLen ==
    /\ ~panicked
    /\ nops < MaxOps
    /\ \E r \in {SetMaxLenResult(SettingsMaxLen(settings))} :
           /\ values' = r.values
           /\ nits_timeline' = r.tl
           /\ nits_senders' = r.senders
           /\ nits_command_types' = r.types
    /\ last_op' = "set_max_len"
    /\ last_batch' = EmptyBatch
    /\ pre_index' = Index
    /\ nops' = nops + 1
    /\ UNCHANGED <<settings, panicked, snapshot,
                   queueVars, chanVars, decVars, csvVars, rangeVars, bitsVars>>

\* set_retention(n): the owner of the settings writes retention_period and
\* calls Values::set_max_len()
SetRetention(n) ==
    /\ ~panicked
    /\ nops < MaxOps
    /\ settings' = [settings EXCEPT !.retention_period = n]
    /\ \E r \in {SetMaxLenResult(n)} :
           /\ values' = r.values
           /\ nits_timeline' = r.tl
           /\ nits_senders' = r.senders
           /\ nits_command_types' = r.types
    /\ last_op' = "set_max_len"
    /\ last_batch' = EmptyBatch
    /\ pre_index' = Index
    /\ nops' = nops + 1
    /\ UNCHANGED <<panicked, snapshot, queueVars, chanVars, decVars, csvVars, rangeVars, bitsVars>>

\* the owner of the settings writes retention_period; the store is not told
SetRetentionPeriod(n) ==
    /\ ~panicked
    /\ nops < MaxOps
    /\ n # settings.retention_period
    /\ settings' = [settings EXCEPT !.retention_period = n]
    /\ last_op' = "set_retention_period"
    /\ last_batch' = EmptyBatch
    /\ pre_index' = Index
    /\ nops' = nops + 1
    /\ UNCHANGED <<values, nits_timeline, nits_senders, nits_command_types, panicked,
                   snapshot, queueVars, chanVars, decVars, csvVars, rangeVars, bitsVars>>

\* the owner of the settings writes keep_values
SetKeepValues(b) ==
    /\ ~panicked
    /\ nops < MaxOps
    /\ b # settings.keep_values
    /\ settings' = [settings EXCEPT !.keep_values = b]
    /\ last_op' = "set_keep_values"
    /\ last_batch' = EmptyBatch
    /\ pre_index' = Index
    /\ nops' = nops + 1
    /\ UNCHANGED <<values, nits_timeline, nits_senders, nits_command_types, panicked,
                   snapshot, queueVars, chanVars, decVars, csvVars, rangeVars, bitsVars>>

\* Values::serialize: the store is written out
Serialize ==
    /\ ~panicked
    /\ nops < MaxOps
    /\ snapshot' = SerializeValues
    /\ last_op' = "serialize"
    /\ last_batch' = EmptyBatch
    /\ pre_index' = Index
    /\ nops' = nops + 1
    /\ UNCHANGED <<values, nits_timeline, nits_senders, nits_command_types, settings,
                   panicked, queueVars, chanVars, decVars, csvVars, rangeVars, bitsVars>>

\* Values::deserialize of the last snapshot, followed by set_settings with the
\* shared settings
Deserialize ==
    /\ ~panicked
    /\ nops < MaxOps
    /\ snapshot.taken
    /\ values' = snapshot.values
    /\ nits_timeline' = snapshot.nits_timeline
    /\ nits_senders' = snapshot.nits_senders
    /\ nits_command_types' = snapshot.nits_command_types
    /\ last_op' = "deserialize"
    /\ last_batch' = EmptyBatch
    /\ pre_index' = Index
    /\ nops' = nops + 1
    /\ UNCHANGED <<settings, panicked, snapshot,
                   queueVars, chanVars, decVars, csvVars, rangeVars, bitsVars>>

Init == StoreInit /\ QueueIdle /\ ChanIdle /\ DecIdle /\ CsvIdle /\ RangeIdle /\ BitsIdle

Next ==
    \/ \E batch \in Batches : AddData(batch)
    \/ SetMaxLen
    \/ \E n \in Retentions : SetRetention(n)
    \/ \E n \in Retentions : SetRetentionPeriod(n)
    \/ \E b \in BOOLEAN : SetKeepValues(b)
    \/ Serialize
    \/ Deserialize

\* the store under every operation
Spec == Init /\ [][Next]_vars

NextIngest ==
    \/ \E batch \in Batches : AddData(batch)
    \/ \E n \in Retentions : SetRetention(n)

\* the store under ingest and set_retention only
SpecIngest == Init /\ [][NextIngest]_vars

\* commonline words: 15 cars in front, for which get_channel_number returns a
\* range error, and one car in front
LocalWords == {Word(1, 0, 15), Word(1, 0, 1)}

\* batches with the commonline channel, with and without car channel 1
LocalBatches ==
    UNION {{[k \in {CommonlineName} |-> n32],
            [k \in {CommonlineName, ChannelName(1)} |->
                IF k = CommonlineName THEN n32 ELSE <<Word(2, 0, 0)>>]} :
           n32 \in SeqsUpTo(LocalWords, MaxLocalLen)}

NextLocal == \E batch \in LocalBatches : AddData(batch)

\* the store under ingests of ticks whose channel-number computation fails
SpecLocal == Init /\ [][NextLocal]_vars

-----------------------------------------------------------------------------
(* The bounded queue on its own: a queue of any capacity under push and    *)
(* extend.  The elements handed to it are numbered 1, 2, 3, ... in order.  *)

QueueInit ==
    /\ StoreIdle /\ ChanIdle /\ DecIdle /\ CsvIdle /\ RangeIdle /\ BitsIdle
    /\ q \in {WithCapacity(n) : n \in 0..MaxQueueCap}
    /\ q_pushed = <<>>
    /\ q_panicked = FALSE
    /\ q_op = [name |-> "with_capacity", n |-> 0]
    /\ q_before = q

\* the next k elements
Fresh(k) == [j \in 1..k |-> Len(q_pushed) + j]

\* q.push(value)
QueuePush ==
    /\ ~q_panicked
    /\ Len(q_pushed) + 1 <= MaxPushed
    /\ \E r \in {QPush(q, Fresh(1)[1])} :
           /\ q' = r.q
           /\ q_panicked' = r.panic
    /\ q_pushed' = q_pushed \o Fresh(1)
    /\ q_op' = [name |-> "push", n |-> 1]
    /\ q_before' = q
    /\ UNCHANGED <<storeVars, chanVars, decVars, csvVars, rangeVars, bitsVars>>

\* q.extend(values) with k values
QueueExtend(k) ==
    /\ ~q_panicked
    /\ Len(q_pushed) + k <= MaxPushed
    /\ \E r \in {QExtend(q, Fresh(k))} :
           /\ q' = r.q
           /\ q_panicked' = r.panic
    /\ q_pushed' = q_pushed \o Fresh(k)
    /\ q_op' = [name |-> "extend", n |-> k]
    /\ q_before' = q
    /\ UNCHANGED <<storeVars, chanVars, decVars, csvVars, rangeVars, bitsVars>>

NextQueue ==
    \/ QueuePush
    \/ \E k \in 0..MaxExtendLen : QueueExtend(k)

SpecQueue == QueueInit /\ [][NextQueue]_vars

\* q.set_max_len(n)
QueueSetMaxLen(n) ==
    /\ ~q_panicked
    /\ \E r \in {QSetMaxLen(q, n)} :
           /\ q' = r.q
           /\ q_panicked' = r.panic
    /\ q_op' = [name |-> "set_max_len", n |-> n]
    /\ q_before' = q
    /\ UNCHANGED <<q_pushed, storeVars, chanVars, decVars, csvVars, rangeVars, bitsVars>>

NextQueueCap ==
    \/ QueuePush
    \/ \E k \in 0..MaxExtendLen : QueueExtend(k)
    \/ \E n \in 0..(MaxQueueCap + 1) : QueueSetMaxLen(n)

\* the bounded queue under push, extend and changes of its capacity
SpecQueueCap == QueueInit /\ [][NextQueueCap]_vars

-----------------------------------------------------------------------------
(* get_channel_number on its own: one call, on any arguments in and around *)
(* the valid ranges, of either revision and in either build.               *)

ChanInit ==
    /\ StoreIdle /\ QueueIdle /\ DecIdle /\ CsvIdle /\ RangeIdle /\ BitsIdle
    /\ cn_in \in [c : -MaxCount..MaxCount, f : 0..MaxCount, b : 0..MaxCount,
                  checks : BOOLEAN]
    /\ cn_out = NotCalled

\* NitsRelativeCarCount(c).get_channel_number(f, b) of values.rs
CallGetChannelNumber ==
    /\ cn_out = NotCalled
    /\ cn_out' = [rev |-> "values",
                  res |-> GetChannelNumber(cn_in.c, cn_in.f, cn_in.b, cn_in.checks)]
    /\ UNCHANGED <<cn_in, storeVars, queueVars, decVars, csvVars, rangeVars, bitsVars>>

\* NitsRelativeCarCount(c).get_channel_number(f, b) of nits.rs
CallGetChannelNumberNits ==
    /\ cn_out = NotCalled
    /\ cn_out' = [rev |-> "nits",
                  res |-> GetChannelNumberNits(cn_in.c, cn_in.f, cn_in.b, cn_in.checks)]
    /\ UNCHANGED <<cn_in, storeVars, queueVars, decVars, csvVars, rangeVars, bitsVars>>

NextChan ==
    \/ CallGetChannelNumber
    \/ CallGetChannelNumberNits

SpecChan == ChanInit /\ [][NextChan]_vars

-----------------------------------------------------------------------------
(* The decoding of one tick on its own: the i-th of len commonline samples *)
(* with any car counts, against several sets of car channels.              *)

\* the k-th sample of car channel n: a word that tells n and k
CarSample(n, k) == Word(n + 1, 0, k)

\* car channel n with m samples
ChannelSamples(n, m) == [k \in 1..m |-> CarSample(n, k)]

\* the car channels of a batch: all of them with m samples each, all of them
\* with 0, 1 or 2 samples in turn, the four of the example, all but channel 16,
\* all but channels 1 and 31, none
ChannelFamilies ==
    {[n \in 0..31 |-> ChannelSamples(n, m)] : m \in 0..MaxDecodeLen}
    \cup {[n \in 0..31 |-> ChannelSamples(n, n % 3)],
          [n \in {1, 2, 16, 31} |-> ChannelSamples(n, 1)],
          [n \in (0..31) \ {16} |-> ChannelSamples(n, 1)],
          [n \in (0..31) \ {1, 31} |-> ChannelSamples(n, MaxDecodeLen)],
          [n \in {} |-> <<>>]}

DecodeInit ==
    /\ StoreIdle /\ QueueIdle /\ ChanIdle /\ CsvIdle /\ RangeIdle /\ BitsIdle
    /\ \E f \in 0..15, b \in 0..15, len \in 1..MaxDecodeLen :
       \E i \in 0..(len - 1), nd \in ChannelFamilies, checks \in BOOLEAN :
           dec_in = [f |-> f, b |-> b, w |-> Word(1, b, f), nits_data |-> nd,
                     i |-> i, len |-> len, checks |-> checks]
    /\ dec_out = NotDecoded

\* add_data decodes the commands of one tick
Decode ==
    /\ dec_out = NotDecoded
    /\ dec_out' = [done |-> TRUE,
                   dec |-> DecodeCommands(dec_in.w, dec_in.nits_data, dec_in.i,
                                          dec_in.len, dec_in.checks)]
    /\ UNCHANGED <<dec_in, storeVars, queueVars, chanVars, csvVars, rangeVars, bitsVars>>

NextDecode == Decode

SpecDecode == DecodeInit /\ [][NextDecode]_vars

-----------------------------------------------------------------------------
(* CSV export and import on their own: save_csv of a store that earlier    *)
(* ingests have built, a new store, and load_csv of the saved file or of a *)
(* file from elsewhere.                                                    *)

\* names of ordinary channels
CsvNames == {"A", "B"}

\* samples: 1.0 and NaN
CsvSamples == {1065353216, 2143289344}

\* the series of one channel at retention length n
CsvSeries(n) == {[vec |-> v, max_len |-> n] : v \in SeqsUpTo(CsvSamples, n)}

\* the stores that ingests of the channels CsvNames build at retention length n
CsvStores(n) == UNION {[D -> CsvSeries(n)] : D \in SUBSET CsvNames}

\* the key lists handed to save_csv: channels of the store and one it never has
CsvKeyLists == UNION {Orders(D) : D \in SUBSET (CsvNames \cup {"C"})}

\* files written by something else: a well-formed one, one with text that is
\* no number, one with a blank cell, one for the commonline channel, one whose
\* data line is shorter than the header, an empty one
GivenFiles ==
    {[exists |-> TRUE, lines |-> l] :
        l \in {<< <<"A", ",", "B">>, <<"1", ",", "NaN">>, <<"1.5", ",", "2">> >>,
               << <<"A">>, <<"abc">> >>,
               << <<"A", ",", "B">>, <<"1", ",">> >>,
               << <<"NITS N32">>, <<"0">> >>,
               << <<"A", ",", "B">>, <<"2">> >>,
               << >>}}

CsvInit ==
    /\ QueueIdle /\ ChanIdle /\ DecIdle /\ RangeIdle /\ BitsIdle
    /\ settings \in [retention_period : Retentions, keep_values : {FALSE}]
    /\ values \in CsvStores(SettingsMaxLen(settings))
    /\ nits_timeline = WithCapacity(SettingsMaxLen(settings))
    /\ nits_senders = {}
    /\ nits_command_types = {}
    /\ panicked = FALSE
    /\ snapshot = NoSnapshot
    /\ pre_index = [senders |-> {}, types |-> {}]
    /\ last_op = "add_data"
    /\ last_batch = EmptyBatch
    /\ nops = 0
    /\ csv_file \in {NoFile} \cup GivenFiles
    /\ csv_out = NoCsvCall
    /\ csv_saved = NoneSaved

\* Values::save_csv(path, keys); io tells whether File::create and the writes
\* succeed
SaveCsv(keys, io) ==
    /\ ~panicked
    /\ csv_out.op = "none"
    /\ \E lines \in {SaveLines(values, keys)} :
          \/ /\ io = "ok"
             /\ csv_file' = [exists |-> TRUE, lines |-> lines]
             /\ csv_saved' = [taken |-> TRUE, values |-> values, keys |-> keys,
                              lines |-> lines]
          \/ /\ io = "create_fails"
             /\ UNCHANGED <<csv_file, csv_saved>>
          \/ /\ io = "write_fails"
             /\ \E m \in 0..(Len(lines) - 1) :
                   csv_file' = [exists |-> TRUE, lines |-> SubSeq(lines, 1, m)]
             /\ UNCHANGED csv_saved
    /\ csv_out' = [op |-> "save_csv", result |-> IF io = "ok" THEN "Ok" ELSE "Err",
                   io |-> io, keys |-> keys, fresh |-> IsFresh, before |-> values]
    /\ last_op' = "save_csv"
    /\ last_batch' = EmptyBatch
    /\ pre_index' = Index
    /\ UNCHANGED <<values, nits_timeline, nits_senders, nits_command_types, settings,
                   panicked, snapshot, nops, queueVars, chanVars, decVars,
                   rangeVars, bitsVars>>

\* Values::new(settings): the program starts again with the same settings
NewStore ==
    /\ ~panicked
    /\ csv_out.op # "load_csv"
    /\ ~IsFresh
    /\ values' = EmptyValues
    /\ nits_timeline' = WithCapacity(SettingsMaxLen(settings))
    /\ nits_senders' = {}
    /\ nits_command_types' = {}
    /\ last_op' = "new"
    /\ last_batch' = EmptyBatch
    /\ pre_index' = Index
    /\ UNCHANGED <<settings, panicked, snapshot, nops, csvVars,
                   queueVars, chanVars, decVars, rangeVars, bitsVars>>

\* Values::load_csv(file_path); io tells whether File::open succeeds
LoadCsv(io) ==
    /\ ~panicked
    /\ csv_out.op # "load_csv"
    /\ io = "ok" => csv_file.exists
    /\ \E r \in IF io = "ok" THEN LoadLines({LiveStore}, csv_file.lines, 1, NoFirstRow)
                ELSE {LiveStore} :
          /\ values' = r.values
          /\ nits_timeline' = r.tl
          /\ nits_senders' = r.senders
          /\ nits_command_types' = r.types
          /\ panicked' = r.panic
          /\ csv_out' = [op |-> "load_csv", result |-> IF r.panic THEN "Panic" ELSE "Unit",
                         io |-> io, keys |-> <<>>, fresh |-> IsFresh, before |-> values]
    /\ last_op' = "load_csv"
    /\ last_batch' = EmptyBatch
    /\ pre_index' = Index
    /\ UNCHANGED <<settings, snapshot, nops, csv_file, csv_saved,
                   queueVars, chanVars, decVars, rangeVars, bitsVars>>

NextCsv ==
    \/ \E keys \in CsvKeyLists, io \in {"ok", "create_fails", "write_fails"} :
          SaveCsv(keys, io)
    \/ NewStore
    \/ \E io \in {"ok", "open_fails"} : LoadCsv(io)

SpecCsv == CsvInit /\ [][NextCsv]_vars

-----------------------------------------------------------------------------
(* The bounds validator on its own: one call of check or check_result on a *)
(* RangeCheck<i32> built by any of its constructors.                       *)

\* the limits of the bounds run over -MaxLimit..MaxLimit, the values one further
RangeLimits == (-MaxLimit)..MaxLimit

RangeValues == (-MaxLimit - 1)..(MaxLimit + 1)

RangeBounds == RangeLimits \X BOOLEAN

RangeNames == {"car_count_front", "x"}

RangeChecks ==
    {LowerBound(v, lo) : v \in RangeValues, lo \in RangeBounds}
    \cup {UpperBound(v, hi) : v \in RangeValues, hi \in RangeBounds}
    \cup {UpperAndLowerBound(v, lo, hi) :
              v \in RangeValues, lo \in RangeBounds, hi \in RangeBounds}

RangeInit ==
    /\ StoreIdle /\ QueueIdle /\ ChanIdle /\ DecIdle /\ CsvIdle /\ BitsIdle
    /\ rc_in \in [rc : RangeChecks, name : RangeNames]
    /\ rc_out = NotChecked

\* rc.check()
CallCheck ==
    /\ rc_out = NotChecked
    /\ rc_out' = [done |-> TRUE, op |-> "check", res |-> Check(rc_in.rc)]
    /\ UNCHANGED <<rc_in, storeVars, queueVars, chanVars, decVars, csvVars, bitsVars>>

\* rc.check_result(name)
CallCheckResult ==
    /\ rc_out = NotChecked
    /\ rc_out' = [done |-> TRUE, op |-> "check_result",
                  res |-> CheckResult(rc_in.rc, rc_in.name)]
    /\ UNCHANGED <<rc_in, storeVars, queueVars, chanVars, decVars, csvVars, bitsVars>>

NextRange ==
    \/ CallCheck
    \/ CallCheckResult

SpecRange == RangeInit /\ [][NextRange]_vars

-----------------------------------------------------------------------------
(* The fields of a command word on their own: add_data reads the command   *)
(* type, the payload and both car counts from the raw bits of one sample.  *)

\* the u32 with command type ct in bits 24..31 and payload p in bits 0..23
U32Word(ct, p) == (IF ct >= 128 THEN ct - 256 ELSE ct) * Pow24 + p

\* a payload: bits 9..23 hi, bits 5..8 b, bit 4, bits 0..3 f
PayloadOf(hi, b, bit4, f) == hi * 512 + b * 32 + bit4 * 16 + f

BitsTypes == {0, 1, 127, 128, 255}

\* bits 9..23: none set, the lowest, the highest, all
BitsHigh == {0, 1, 16384, 32767}

BitsInit ==
    /\ StoreIdle /\ QueueIdle /\ ChanIdle /\ DecIdle /\ CsvIdle /\ RangeIdle
    /\ \E ct \in BitsTypes, hi \in BitsHigh, b \in 0..15, bit4 \in 0..1, f \in 0..15 :
           w_in = [w |-> U32Word(ct, PayloadOf(hi, b, bit4, f)),
                   ct |-> ct, hi |-> hi, b |-> b, bit4 |-> bit4, f |-> f]
    /\ w_out = NotUnpacked

\* add_data takes the sample for a commonline command and unpacks it
Unpack ==
    /\ w_out = NotUnpacked
    /\ w_out' = [done |-> TRUE,
                 command_type |-> GetCommandType(w_in.w),
                 payload |-> GetPayload(w_in.w),
                 car_count_front |-> CarCountFront(w_in.w),
                 car_count_back |-> CarCountBack(w_in.w)]
    /\ UNCHANGED <<w_in, storeVars, queueVars, chanVars, decVars, csvVars, rangeVars>>

NextBits == Unpack

SpecBits == BitsInit /\ [][NextBits]_vars

-----------------------------------------------------------------------------
(* Properties of the store *)

C3_NeverPanics == ~panicked

\* C5: across ingest calls the sender index set and the command-type index set
\* never shrink: each set after add_data is a superset of the set before it.
C5_IndexMonotone ==
    [][last_op' = "add_data" =>
          /\ nits_senders \subseteq nits_senders'
          /\ nits_command_types \subseteq nits_command_types']_vars

\* after an ingest the sender index still holds position -1 although no tick
\* left in the timeline has a command from it: its tick was evicted
C5_Witness ==
    /\ last_op = "add_data" /\ ~panicked
    /\ -1 \in nits_senders
    /\ Len(nits_timeline.vec) >= 1
    /\ \A n \in 1..Len(nits_timeline.vec) : -1 \notin DOMAIN nits_timeline.vec[n].commands

\* C6: immediately after set_retention (set_max_len) the timeline is within the
\* retention length, the sender index is exactly the set of relative positions
\* in the command mappings of the retained ticks, and the command-type index is
\* exactly the set of command types of those ticks' commonline and per-car
\* commands.
C6_RebuildExact ==
    last_op = "set_max_len" =>
        LET ticks == nits_timeline.vec
        IN  /\ Len(ticks) <= SettingsMaxLen(settings)
            /\ \A j \in (-MaxCount)..MaxCount :
                  j \in nits_senders <=>
                      \E n \in 1..Len(ticks) : j \in DOMAIN ticks[n].commands
            /\ nits_senders \subseteq (-MaxCount)..MaxCount
            /\ \A t \in 0..255 :
                  t \in nits_command_types <=>
                      \E n \in 1..Len(ticks) :
                          \/ (ticks[n].commonline \div Pow24) % 256 = t
                          \/ \E j \in DOMAIN ticks[n].commands :
                                (ticks[n].commands[j] \div Pow24) % 256 = t
            /\ nits_command_types \subseteq 0..255

\* set_retention has evicted a tick and with it position -1 from the sender
\* index, and a tick is retained
C6_Witness ==
    /\ last_op = "set_max_len"
    /\ Len(nits_timeline.vec) >= 1
    /\ -1 \in pre_index.senders
    /\ -1 \notin nits_senders

\* C10: ingesting an empty batch leaves the set of channel names, every series,
\* the timeline and both index sets unchanged.
C10_EmptyBatchNoChange ==
    [][(last_op' = "add_data" /\ last_batch' = EmptyBatch /\ nops' = nops + 1) =>
          /\ DOMAIN values' = DOMAIN values
          /\ values' = values
          /\ nits_timeline' = nits_timeline
          /\ nits_senders' = nits_senders
          /\ nits_command_types' = nits_command_types]_vars

\* an empty batch was ingested into a store that has series, ticks and senders
C10_Witness ==
    /\ last_op = "add_data" /\ last_batch = EmptyBatch /\ ~panicked
    /\ DOMAIN values # {}
    /\ nits_timeline.vec # <<>>
    /\ nits_senders # {}

\* C13: in every reachable state all channel series and the timeline have one
\* and the same capacity, a series created by ingest included, and that
\* capacity is the retention length of the settings whenever the store has
\* just been built, reloaded or told to apply the settings.
C13_SharedCapacity ==
    ~panicked =>
        /\ \A k \in DOMAIN values : values[k].max_len = nits_timeline.max_len
        /\ last_op \in {"new", "set_max_len", "deserialize"} =>
               nits_timeline.max_len = SettingsMaxLen(settings)

\* C14: a snapshot holds the full series contents, the timeline and both index
\* sets if and only if keep_values is true when it is taken; otherwise it holds
\* the same channel names, each with an empty series, an empty timeline and
\* two empty index sets; taking a snapshot never changes the live store.
C14_SnapshotContents ==
    [][last_op' = "serialize" =>
          /\ values' = values /\ nits_timeline' = nits_timeline
          /\ nits_senders' = nits_senders /\ nits_command_types' = nits_command_types
          /\ settings' = settings
          /\ snapshot'.taken
          /\ DOMAIN snapshot'.values = DOMAIN values
          /\ IF settings.keep_values
             THEN /\ \A k \in DOMAIN values : snapshot'.values[k].vec = values[k].vec
                  /\ snapshot'.nits_timeline.vec = nits_timeline.vec
                  /\ snapshot'.nits_senders = nits_senders
                  /\ snapshot'.nits_command_types = nits_command_types
             ELSE /\ \A k \in DOMAIN values : snapshot'.values[k].vec = <<>>
                  /\ snapshot'.nits_timeline.vec = <<>>
                  /\ snapshot'.nits_senders = {}
                  /\ snapshot'.nits_command_types = {}]_vars

\* a snapshot was taken without history of a store that holds samples, ticks
\* and senders: the names are in the snapshot
C14_Witness ==
    /\ last_op = "serialize" /\ ~settings.keep_values
    /\ snapshot.taken
    /\ nits_senders # {}
    /\ nits_timeline.vec # <<>>
    /\ \E k \in DOMAIN values : values[k].vec # <<>> /\ k \in DOMAIN snapshot.values

\* the last n elements of the sequence e, all of them when it has fewer
LastOf(e, n) == SubSeq(e, Len(e) - (IF Len(e) < n THEN Len(e) ELSE n) + 1, Len(e))

\* C15: after a reload of a snapshot without history, with retention length
\* n >= 1, an ingest completes, leaves every preserved series of the batch
\* holding the last min(k, n) of its k samples, and leaves the ticks of the
\* last min(k, n) commonline samples in the timeline.
C15_RepopulateAfterReload ==
    [][(/\ last_op = "deserialize" /\ last_op' = "add_data"
        /\ snapshot.nits_timeline.vec = <<>>
        /\ \A k \in DOMAIN snapshot.values : snapshot.values[k].vec = <<>>
        /\ SettingsMaxLen(settings) >= 1) =>
          /\ ~panicked'
          /\ \A k \in DOMAIN last_batch' \cap DOMAIN values :
                values'[k].vec = LastOf(last_batch'[k], SettingsMaxLen(settings))
          /\ CommonlineName \in DOMAIN last_batch' =>
                /\ Len(nits_timeline'.vec) =
                       Len(LastOf(last_batch'[CommonlineName], SettingsMaxLen(settings)))
                /\ \A n \in 1..Len(nits_timeline'.vec) :
                       nits_timeline'.vec[n].commonline =
                           LastOf(last_batch'[CommonlineName], SettingsMaxLen(settings))[n]]_vars

\* C16: in a snapshot, taken with keep_values enabled or disabled, the capacity
\* recorded for every series and for the timeline is the store's retention
\* length at that time (the store's queues all being at that capacity).
C16_RetentionPersisted ==
    (/\ last_op = "serialize"
     /\ nits_timeline.max_len = SettingsMaxLen(settings)
     /\ \A k \in DOMAIN values : values[k].max_len = SettingsMaxLen(settings)) =>
        /\ snapshot.nits_timeline.max_len = SettingsMaxLen(settings)
        /\ \A k \in DOMAIN snapshot.values :
              snapshot.values[k].max_len = SettingsMaxLen(settings)

\* C24: an ingest whose commonline channel carries len samples appends len
\* ticks, the i-th with the raw bits of the i-th commonline sample, after the
\* ticks retained before; the timeline afterwards is the last max_len entries
\* of the previous timeline followed by the len new ticks.
C24_TicksInOrder ==
    [][(last_op' = "add_data" /\ nops' = nops + 1
        /\ CommonlineName \in DOMAIN last_batch') =>
          LET n32 == last_batch'[CommonlineName]
              old == nits_timeline.vec
              new == nits_timeline'.vec
              total == Len(old) + Len(n32)
              kept == IF total < nits_timeline.max_len THEN total
                      ELSE nits_timeline.max_len
          IN  /\ ~panicked'
              /\ Len(new) = kept
              /\ \A p \in 1..Len(new) :
                    LET at == total - kept + p
                    IN  IF at <= Len(old) THEN new[p] = old[at]
                        ELSE new[p].commonline = n32[at - Len(old)]]_vars

\* C27: in every state reached from a new store by ingest and set_retention,
\* the sender index holds every relative position of the retained ticks and
\* the command-type index every command type of their commonline and per-car
\* commands; right after set_retention each index holds nothing else.
C27_IndexCoversTimeline ==
    LET ticks == nits_timeline.vec
        Positions == UNION {DOMAIN ticks[n].commands : n \in 1..Len(ticks)}
        Types == {GetCommandType(ticks[n].commonline) : n \in 1..Len(ticks)}
                 \cup UNION {{GetCommandType(ticks[n].commands[j]) :
                                 j \in DOMAIN ticks[n].commands} : n \in 1..Len(ticks)}
    IN  /\ Positions \subseteq nits_senders
        /\ Types \subseteq nits_command_types
        /\ last_op = "set_max_len" =>
              (nits_senders \subseteq Positions /\ nits_command_types \subseteq Types)

\* after an ingest the retained tick has a command from position -1, which
\* the sender index holds, and the command-type index still holds type 0 of
\* an evicted tick
C27_Witness ==
    /\ last_op = "add_data" /\ ~panicked
    /\ Len(nits_timeline.vec) >= 1
    /\ \A n \in 1..Len(nits_timeline.vec) :
          /\ GetCommandType(nits_timeline.vec[n].commonline) = 1
          /\ -1 \in DOMAIN nits_timeline.vec[n].commands
    /\ -1 \in nits_senders
    /\ 0 \in nits_command_types

\* C28: an ingest of a batch without the commonline channel "NITS N32" leaves
\* the timeline and both index sets unchanged, also when the batch has samples
\* for car channels; and every ingest changes only the series of the channel
\* names in its batch.
C28_IngestFrame ==
    [][(last_op' = "add_data" /\ nops' = nops + 1) =>
          /\ CommonlineName \notin DOMAIN last_batch' =>
                /\ nits_timeline' = nits_timeline
                /\ nits_senders' = nits_senders
                /\ nits_command_types' = nits_command_types
          /\ \A k \in DOMAIN values \ DOMAIN last_batch' :
                k \in DOMAIN values' /\ values'[k] = values[k]
          /\ DOMAIN values' \subseteq DOMAIN values \cup DOMAIN last_batch']_vars

\* a batch with a sample for car channel 1 and without the commonline was
\* ingested into a store that holds ticks, senders and the commonline series
C28_Witness ==
    /\ last_op = "add_data" /\ ~panicked
    /\ CommonlineName \notin DOMAIN last_batch
    /\ ChannelName(1) \in DOMAIN last_batch
    /\ last_batch[ChannelName(1)] # <<>>
    /\ nits_timeline.vec # <<>>
    /\ nits_senders # {}
    /\ CommonlineName \in DOMAIN values
    /\ values[CommonlineName].vec # <<>>

\* C30: an ingest stores every channel name of its batch as a series: the
\* reserved channels "NITS N00".."NITS N32" get their samples appended like
\* any other channel, and a name with an empty sample list gets a series too;
\* and no ingest or set_retention removes a channel name.
C30_NamesStored ==
    [][/\ DOMAIN values \subseteq DOMAIN values'
       /\ (last_op' = "add_data" /\ nops' = nops + 1) =>
             /\ ~panicked'
             /\ \A k \in DOMAIN last_batch' :
                   /\ k \in DOMAIN values'
                   /\ values'[k].vec =
                          LastOf((IF k \in DOMAIN values THEN values[k].vec ELSE <<>>)
                                     \o last_batch'[k],
                                 values'[k].max_len)]_vars

\* the channel-number computation fails for a position of the tick of the
\* commonline word w
LookupFails(w) ==
    \E j \in (-CarCountFront(w))..CarCountBack(w), checks \in BOOLEAN :
        GetChannelNumber(j, CarCountFront(w), CarCountBack(w), checks).kind # "Ok"

\* C25: when the channel-number computation fails for a position of a tick,
\* the ingest still appends that tick with its commonline command, still
\* decodes the other commonline samples of the batch, with the positions whose
\* lookup succeeds, and still extends every series named in the batch.
C25_RangeViolationLocal ==
    [][(/\ last_op' = "add_data" /\ nops' = nops + 1
        /\ CommonlineName \in DOMAIN last_batch'
        /\ \E i \in 1..Len(last_batch'[CommonlineName]) :
              LookupFails(last_batch'[CommonlineName][i])) =>
          LET n32 == last_batch'[CommonlineName]
              new == nits_timeline'.vec
              kept == IF Len(n32) < nits_timeline.max_len THEN Len(n32)
                      ELSE nits_timeline.max_len
          IN  /\ ~panicked'
              /\ Len(new) >= kept
              /\ \A p \in 1..kept :
                    LET tick == new[Len(new) - kept + p]
                        w == n32[Len(n32) - kept + p]
                    IN  /\ tick.commonline = w
                        /\ (~LookupFails(w) /\ ChannelName(CarCountFront(w)) \in DOMAIN last_batch') =>
                               -1 \in DOMAIN tick.commands
              /\ \A k \in DOMAIN last_batch' :
                    /\ k \in DOMAIN values'
                    /\ values'[k].vec =
                           LastOf((IF k \in DOMAIN values THEN values[k].vec ELSE <<>>)
                                      \o last_batch'[k],
                                  values'[k].max_len)]_vars

-----------------------------------------------------------------------------
(* Properties of the bounded queue *)

\* C2: after every push or extend on a queue of capacity n, also an extend
\* longer than n, len() <= n and the retained elements are exactly the last
\* min(n, total pushed) elements pushed so far, oldest first.
C2_KeepsLast ==
    q_op.name \in {"push", "extend"} =>
        LET total == Len(q_pushed)
            kept  == Min(q.max_len, total)
        IN  /\ ~q_panicked
            /\ Len(q.vec) <= q.max_len
            /\ q.vec = SubSeq(q_pushed, total - kept + 1, total)

\* C11: a bounded queue with capacity 0 stays empty after every push and every
\* extend: the operation completes, drops the new elements, and len() = 0.
C11_ZeroCapacityStaysEmpty ==
    (q.max_len = 0 /\ q_op.name \in {"push", "extend"}) =>
        /\ ~q_panicked
        /\ Len(q.vec) = 0

\* C12: set_max_len(n) on a queue holding the elements e sets the capacity to n
\* and leaves exactly the last min(|e|, n) elements of e in their order: the
\* oldest |e| - n are evicted from the front when n < |e|, none otherwise.
C12_SetCapacityKeepsLast ==
    q_op.name = "set_max_len" =>
        LET e == q_before.vec
            kept == IF Len(e) < q_op.n THEN Len(e) ELSE q_op.n
        IN  /\ ~q_panicked
            /\ q.max_len = q_op.n
            /\ Len(q.vec) = kept
            /\ \A m \in 1..kept : q.vec[m] = e[Len(e) - kept + m]

\* the capacity of a queue of at least two elements was lowered to a smaller,
\* non-zero capacity: the front was evicted and something stays
C12_Witness ==
    /\ q_op.name = "set_max_len"
    /\ q_op.n >= 1
    /\ Len(q_before.vec) > q_op.n
    /\ Len(q.vec) = q_op.n

\* push applied to the values vals in order, from the i-th on;
\* st = [panic, q]
RECURSIVE PushEach(_, _, _)
PushEach(st, vals, i) ==
    IF st.panic \/ i > Len(vals) THEN st
    ELSE PushEach(QPush(st.q, vals[i]), vals, i + 1)

\* C22: for every queue state and every list of values, of any length, also
\* longer than the capacity, extend(values) returns and leaves the queue as
\* push applied to each value in order leaves it.
C22_ExtendIsPushEach ==
    q_op.name = "extend" =>
        LET vals == SubSeq(q_pushed, Len(q_pushed) - q_op.n + 1, Len(q_pushed))
            r == PushEach([panic |-> FALSE, q |-> q_before], vals, 1)
        IN  /\ q_panicked = r.panic
            /\ q = r.q

-----------------------------------------------------------------------------
(* Properties of get_channel_number *)

\* the channel of relative position c as the formula gives it, in the integers
ChannelFormula(c, f, b) ==
    IF c < 0 THEN 1 + f - Abs(c) ELSE IF c > 0 THEN 31 + Abs(c) - b ELSE 16

Returned(v) == [kind |-> "Ok", val |-> v, wrapped |-> FALSE]

\* C7: for all car counts f, b in [0,15], 15 included, channel_number(0, f, b)
\* = 16, channel_number(-1, f, b) = f and channel_number(1, f, b) = 32 - b,
\* each returned as a success value.
C7_FixedPoints ==
    (cn_out # NotCalled /\ cn_in.f \in 0..15 /\ cn_in.b \in 0..15) =>
        /\ cn_in.c = 0 => cn_out.res = Returned(16)
        /\ cn_in.c = -1 => cn_out.res = Returned(cn_in.f)
        /\ cn_in.c = 1 => cn_out.res = Returned(32 - cn_in.b)

\* C8: channel_number returns a range error whenever relative is outside
\* [-15,15], or car_count_front is outside [0,15], or car_count_back is
\* outside [0,15]; and arguments that are all within their ranges are not
\* rejected with a range error.
C8_RangeErrors ==
    cn_out # NotCalled =>
        (cn_out.res.kind = "Err" <=>
            \/ cn_in.c \notin -15..15
            \/ cn_in.f \notin 0..15
            \/ cn_in.b \notin 0..15)

\* C9: for every relative in [-15,15] and every f, b in [0,15] the call returns
\* an error or exactly the integer 1+f-|relative| (relative < 0) or
\* 31+|relative|-b (relative > 0); it never returns a value wrapped modulo 2^32
\* and never aborts on unsigned underflow.
C9_FailsNotWraps ==
    (cn_out # NotCalled /\ cn_in.c \in -15..15 /\ cn_in.c # 0
        /\ cn_in.f \in 0..15 /\ cn_in.b \in 0..15) =>
        \/ cn_out.res.kind = "Err"
        \/ cn_out.res = Returned(ChannelFormula(cn_in.c, cn_in.f, cn_in.b))

-----------------------------------------------------------------------------
(* Properties of the decoding of a tick *)

\* C4: for a commonline sample with car counts f and b, each in 0..15, the
\* tick's command mapping holds exactly the relative positions j in -f..b whose
\* channel (1+f-|j| for j<0, 16 for j=0, 31+j-b for j>0) is present in the batch
\* with at least one sample, each mapped to a command read from that channel.
C4_TickMapping ==
    dec_out # NotDecoded =>
        LET nd == dec_in.nits_data
            present == {j \in (-dec_in.f)..dec_in.b :
                          /\ ChannelFormula(j, dec_in.f, dec_in.b) \in DOMAIN nd
                          /\ Len(nd[ChannelFormula(j, dec_in.f, dec_in.b)]) >= 1}
        IN  /\ ~dec_out.dec.panic
            /\ DOMAIN dec_out.dec.commands = present
            /\ \A j \in present :
                  \E k \in 1..Len(nd[ChannelFormula(j, dec_in.f, dec_in.b)]) :
                      dec_out.dec.commands[j] = nd[ChannelFormula(j, dec_in.f, dec_in.b)][k]

\* C23: for the i-th (0-based) of len commonline samples and a car channel
\* with m >= 1 samples in the batch, the tick reads the channel's sample at
\* index max(i + m - len, 0) of the batch: the index is below m, the newest
\* commonline sample goes with the channel's newest sample, and when m < len
\* the channel's oldest sample is read for the first len - m ticks.
C23_TimeAlignment ==
    dec_out # NotDecoded =>
        \A j \in DOMAIN dec_out.dec.commands :
            LET channel == dec_in.nits_data[ChannelFormula(j, dec_in.f, dec_in.b)]
                m == Len(channel)
                idx == IF dec_in.i + m - dec_in.len > 0 THEN dec_in.i + m - dec_in.len
                       ELSE 0
            IN  /\ m >= 1
                /\ idx < m
                /\ dec_out.dec.commands[j] = channel[idx + 1]
                /\ dec_in.i = dec_in.len - 1 => dec_out.dec.commands[j] = channel[m]
                /\ (m < dec_in.len /\ dec_in.i < dec_in.len - m) =>
                       dec_out.dec.commands[j] = channel[1]

\* the first of two commonline samples was decoded against a channel with one
\* sample, whose oldest sample is reused, and a channel with two
C23_Witness ==
    /\ dec_out # NotDecoded
    /\ dec_in.len = 2 /\ dec_in.i = 0
    /\ \E j, k \in DOMAIN dec_out.dec.commands :
          /\ Len(dec_in.nits_data[ChannelFormula(j, dec_in.f, dec_in.b)]) = 1
          /\ Len(dec_in.nits_data[ChannelFormula(k, dec_in.f, dec_in.b)]) = 2

\* the car channel a command of the model's batches was read from
SourceChannel(word) == GetCommandType(word) - 1

\* C29: for every f, b in 0..15 the channels that the positions j in -f..b of
\* a tick read are pairwise distinct and lie in 1..31: forward positions in
\* 1..15, self at 16, rearward positions in 17..31; channel "NITS N00" gives
\* no command to any tick.
C29_DistinctChannels ==
    dec_out # NotDecoded =>
        LET cmds == dec_out.dec.commands
        IN  /\ DOMAIN cmds \subseteq (-dec_in.f)..dec_in.b
            /\ \A j \in DOMAIN cmds :
                  /\ SourceChannel(cmds[j]) \in 1..31
                  /\ j < 0 => SourceChannel(cmds[j]) \in 1..15
                  /\ j = 0 => SourceChannel(cmds[j]) = 16
                  /\ j > 0 => SourceChannel(cmds[j]) \in 17..31
            /\ \A j, k \in DOMAIN cmds :
                  j # k => SourceChannel(cmds[j]) # SourceChannel(cmds[k])

\* a tick with 14 cars in front and 15 behind has a command from every one of
\* its 30 positions
C29_Witness ==
    /\ dec_out # NotDecoded
    /\ dec_in.f = 14 /\ dec_in.b = 15
    /\ DOMAIN dec_out.dec.commands = (-14)..15

-----------------------------------------------------------------------------
(* Properties of the CSV export and import *)

\* C17: save_csv of all the channels of a store, followed by load_csv of that
\* file into a fresh store with the same retention length, completes and
\* leaves for every channel the same retained trailing samples as the
\* original store held, also when the channels retain different numbers of
\* samples.
C17_CsvRoundTrip ==
    (/\ csv_out.op = "load_csv" /\ csv_out.io = "ok" /\ csv_out.fresh
     /\ csv_saved.taken /\ csv_file.lines = csv_saved.lines
     /\ DOMAIN csv_saved.values \subseteq {csv_saved.keys[i] : i \in 1..Len(csv_saved.keys)}) =>
        /\ ~panicked
        /\ \A k \in DOMAIN csv_saved.values :
              (IF k \in DOMAIN values THEN values[k].vec ELSE <<>>) =
                  LastOf(csv_saved.values[k].vec, SettingsMaxLen(settings))

\* C18: save_csv writes a header of exactly the requested names that exist, in
\* the caller's order, then L rows, L the longest retained series among them;
\* every row has one cell per header column, and the cell of row r for a
\* channel with m samples is blank when r < L - m and otherwise the sample at
\* index r - (L - m), also when the first column is shorter than the longest.
C18_CsvLayout ==
    (csv_out.op = "save_csv" /\ csv_out.result = "Ok") =>
        LET vals == csv_out.before
            InStore(k) == k \in DOMAIN vals
            cols == SelectSeq(csv_out.keys, InStore)
            M(c) == Len(vals[cols[c]].vec)
            L == IF cols = <<>> THEN 0
                 ELSE CHOOSE x \in {M(c) : c \in 1..Len(cols)} :
                          \A c \in 1..Len(cols) : M(c) <= x
            lines == csv_file.lines
        IN  /\ Len(lines) = L + 1
            /\ IF cols = <<>> THEN lines[1] = <<>> ELSE Split(lines[1]) = cols
            /\ \A r \in 0..(L - 1) :
                  /\ Len(Split(lines[r + 2])) = Len(cols)
                  /\ \A c \in 1..Len(cols) :
                        Split(lines[r + 2])[c] =
                            IF r < L - M(c) THEN ""
                            ELSE FormatF32(vals[cols[c]].vec[r - (L - M(c)) + 1])

\* a data line of the file has, in a column of the header, a cell that is no
\* valid numeric text
HasMalformedCell(lines) ==
    /\ Len(lines) >= 2
    /\ \E i \in 2..Len(lines) :
          \E j \in 1..Len(Split(lines[1])) :
              /\ j <= Len(Split(lines[i]))
              /\ ~ParseF32(Split(lines[i])[j]).ok

\* C19: load_csv of a file with a data cell that is no valid numeric text ends
\* with a parse failure reported as an error outcome, not with a panic.
C19_ParseFailureIsError ==
    (csv_out.op = "load_csv" /\ csv_out.io = "ok" /\ HasMalformedCell(csv_file.lines)) =>
        /\ csv_out.result = "Err"
        /\ ~panicked

\* C20: a file open failure in load_csv and a file create or write failure in
\* save_csv are each returned to the caller as an error result, without a
\* panic and with the store left unchanged.
C20_IoFailuresSurfaced ==
    /\ (csv_out.op = "load_csv" /\ csv_out.io = "open_fails") =>
          /\ csv_out.result = "Err"
          /\ ~panicked
          /\ values = csv_out.before /\ Index = pre_index
    /\ (last_op = "save_csv" /\ csv_out.io \in {"create_fails", "write_fails"}) =>
          /\ csv_out.result = "Err"
          /\ ~panicked
          /\ values = csv_out.before /\ Index = pre_index

-----------------------------------------------------------------------------
(* Properties of the bounds validator *)

\* C21: check returns true exactly when the value satisfies both optional
\* bounds (value >= lo or value > lo for a lower bound, value <= hi or
\* value < hi for an upper bound, as the bound is inclusive or not, an absent
\* bound being satisfied); check_result returns Ok exactly then and otherwise
\* an error carrying the value, the given name and both bounds; neither
\* changes the RangeCheck.
C21_CheckExact ==
    [][rc_out'.done =>
          LET v == rc_in.rc.value
              lo == rc_in.rc.min
              hi == rc_in.rc.max
              sat == /\ lo # NoBound => (IF lo[2] THEN v >= lo[1] ELSE v > lo[1])
                     /\ hi # NoBound => (IF hi[2] THEN v <= hi[1] ELSE v < hi[1])
          IN  /\ rc_in' = rc_in
              /\ rc_out'.op = "check" => rc_out'.res = sat
              /\ rc_out'.op = "check_result" =>
                    rc_out'.res = IF sat THEN [kind |-> "Ok"]
                                  ELSE [kind |-> "Err", name |-> rc_in.name, value |-> v,
                                        min |-> lo, max |-> hi]]_vars

\* check_result has rejected a value that sits on an exclusive upper bound
C21_Witness ==
    /\ rc_out.done /\ rc_out.op = "check_result"
    /\ rc_in.rc.max # NoBound /\ rc_in.rc.min # NoBound
    /\ ~rc_in.rc.max[2] /\ rc_in.rc.value = rc_in.rc.max[1]
    /\ rc_in.rc.min[1] < rc_in.rc.value
    /\ rc_out.res.kind = "Err"

-----------------------------------------------------------------------------
(* Properties of the command word *)

\* C26: for every 32-bit word w: command_type is bits 24..31 of w and payload
\* bits 0..23, so that w = command_type * 2^24 + payload; car_count_front is
\* payload mod 16 and car_count_back is (payload div 32) mod 16; both counts
\* lie in 0..15, and bit 4 and bits 9..23 of the payload do not influence them.
C26_WordFields ==
    w_out.done =>
        /\ w_out.command_type = w_in.ct
        /\ w_out.payload = PayloadOf(w_in.hi, w_in.b, w_in.bit4, w_in.f)
        /\ U32Word(w_out.command_type, w_out.payload) = w_in.w
        /\ w_out.car_count_front = w_in.f
        /\ w_out.car_count_back = w_in.b
        /\ w_out.car_count_front \in 0..15
        /\ w_out.car_count_back \in 0..15

\* a word at or above 2^31 with bit 4 and all of bits 9..23 set was unpacked
\* into two different car counts
C26_Witness ==
    /\ w_out.done
    /\ w_in.ct = 255 /\ w_in.bit4 = 1 /\ w_in.hi = 32767
    /\ w_out.car_count_front = 3 /\ w_out.car_count_back = 12

====
